---------------------------- MODULE Spec2Model ----------------------------
(***************************************************************************)
(* A model of findlibs (src/findlibs/__init__.py): the ordered resolution  *)
(* pipeline `find`, the config-file loader `_get_paths_from_config`, the   *)
(* transitive dependency preload and `load`.                               *)
(*                                                                         *)
(* Python strings are sequences of one-character strings, so that the     *)
(* string operations of the code (upper, lower, endswith, slicing, split,  *)
(* replace, os.path.join, expanduser) are computed rather than assumed.    *)
(* The environment the code reads (os.environ, the filesystem, the set of  *)
(* importable modules, the config file, the linker cache behind            *)
(* ctypes.util.find_library, sys.platform) is the record `world`.          *)
(***************************************************************************)
EXTENDS Naturals, Sequences, FiniteSets, TLC

(***************************************************************************)
(* Bounds of the model.                                                    *)
(***************************************************************************)
\* at most this many facts (files, variables, modules, ...) differ from the
\* empty environment in the worlds of Spec
MaxFacts == 3
\* ... in the worlds of SpecDeps
MaxDepFacts == 6
\* ... in the worlds of SpecConfig
MaxConfFacts == 4
\* ... in the worlds of SpecAgain
MaxAgainFacts == 4
\* the interpreter's recursion limit (sys.getrecursionlimit(), 1000 by
\* default), scaled down: nesting depth of _transitive_preload_deps at
\* which Python raises RecursionError
RecursionLimit == 4

(***************************************************************************)
(* Python values.                                                          *)
(***************************************************************************)
\* None: a value different from every string
None == <<"<None>">>

\* truthiness of an optional string: None and "" are falsy
Truthy(v) == v # None /\ v # <<>>

\* a or b
Or(a, b) == IF Truthy(a) THEN a ELSE b

LowerCase == <<"a","b","c","d","e","f","g","h","i","j","k","l","m","n","o","p","q","r","s","t","u","v","w","x","y","z">>
UpperCase == <<"A","B","C","D","E","F","G","H","I","J","K","L","M","N","O","P","Q","R","S","T","U","V","W","X","Y","Z">>
Digits == {"0","1","2","3","4","5","6","7","8","9"}

\* str.upper(), str.lower()
UpperChar(c) == IF \E i \in 1..26 : LowerCase[i] = c
                THEN UpperCase[CHOOSE i \in 1..26 : LowerCase[i] = c] ELSE c
LowerChar(c) == IF \E i \in 1..26 : UpperCase[i] = c
                THEN LowerCase[CHOOSE i \in 1..26 : UpperCase[i] = c] ELSE c
Upper(s) == [i \in 1..Len(s) |-> UpperChar(s[i])]
Lower(s) == [i \in 1..Len(s) |-> LowerChar(s[i])]

\* s[i:] (1-based i) and s[:n]
From(s, i) == IF i > Len(s) THEN <<>> ELSE SubSeq(s, i, Len(s))
Take(s, n) == IF n >= Len(s) THEN s ELSE SubSeq(s, 1, n)

\* s[:-3]
DropLast3(s) == IF Len(s) <= 3 THEN <<>> ELSE SubSeq(s, 1, Len(s) - 3)

\* str.startswith, str.endswith
StartsWith(s, p) == Len(p) <= Len(s) /\ SubSeq(s, 1, Len(p)) = p
EndsWith(s, p) == Len(p) <= Len(s) /\ SubSeq(s, Len(s) - Len(p) + 1, Len(s)) = p

\* str.removeprefix
RemovePrefix(s, p) == IF StartsWith(s, p) THEN From(s, Len(p) + 1) ELSE s

\* str.replace(old, new): every non-overlapping occurrence, left to right
RECURSIVE Replace(_, _, _)
Replace(s, old, new) ==
    IF s = <<>> THEN <<>>
    ELSE IF StartsWith(s, old) THEN new \o Replace(From(s, Len(old) + 1), old, new)
    ELSE <<s[1]>> \o Replace(Tail(s), old, new)

\* str.split(sep) for a one-character separator: "" splits to [""]
RECURSIVE Split(_, _)
Split(s, sep) ==
    IF \A i \in 1..Len(s) : s[i] # sep THEN <<s>>
    ELSE LET k == CHOOSE i \in 1..Len(s) : s[i] = sep /\ \A j \in 1..(i-1) : s[j] # sep
         IN  <<Take(s, k - 1)>> \o Split(From(s, k + 1), sep)

\* re.match(EXTENSIONS_RE[platform], name) is spelled out in MatchesExtension below

(***************************************************************************)
(* Paths.                                                                  *)
(***************************************************************************)
\* os.path.join(a, b) on a POSIX host
Join(a, b) ==
    IF StartsWith(b, <<"/">>) THEN b
    ELSE IF a = <<>> \/ EndsWith(a, <<"/">>) THEN a \o b
    ELSE a \o <<"/">> \o b

Join3(a, b, c) == Join(Join(a, b), c)

\* what the kernel and pathlib make of a path: repeated slashes collapse and
\* a trailing slash is dropped
RECURSIVE Collapse(_)
Collapse(p) ==
    IF \A i \in 1..(Len(p) - 1) : ~(p[i] = "/" /\ p[i + 1] = "/") THEN p
    ELSE IF p[1] = "/" /\ p[2] = "/" THEN Collapse(Tail(p))
    ELSE <<p[1]>> \o Collapse(Tail(p))

Canon(p) ==
    LET c == Collapse(p)
    IN  IF Len(c) > 1 /\ c[Len(c)] = "/" THEN SubSeq(c, 1, Len(c) - 1) ELSE c

\* PurePath.is_absolute()
IsAbsolute(p) == StartsWith(p, <<"/">>)

\* d is a proper ancestor directory of f
IsAncestor(d, f) ==
    \/ d = <<"/">> /\ StartsWith(f, <<"/">>) /\ f # <<"/">>
    \/ d # <<>> /\ StartsWith(f, d \o <<"/">>) /\ Len(f) > Len(d) + 1

\* Path.is_dir(), Path.is_file(), os.path.exists / Path.exists
IsDir(w, p) ==
    LET c == Canon(p)
    IN  \/ c = <<"/">>
        \/ c \in w.dirs
        \/ \E f \in w.files \cup w.dirs : IsAncestor(c, f)
IsFile(w, p) == Canon(p) \in w.files
Exists(w, p) == p # <<>> /\ (IsFile(w, p) \/ IsDir(w, p))

(***************************************************************************)
(* The host: fixed places of the interpreter and of the user.              *)
(***************************************************************************)
\* sys.prefix
SysPrefix == <<"/","p">>
\* the directory importable top-level packages are installed in: a module
\* named n has __file__ = <SitePackages>/n/__init__.py
SitePackages == <<"/","m">>
\* the home directory the password database gives when $HOME is unset
PwHome == <<"/","h">>

HOME == <<"H","O","M","E">>
CONDA_PREFIX == <<"C","O","N","D","A","_","P","R","E","F","I","X">>
LD_LIBRARY_PATH == <<"L","D","_","L","I","B","R","A","R","Y","_","P","A","T","H">>
DYLD_LIBRARY_PATH == <<"D","Y","L","D","_","L","I","B","R","A","R","Y","_","P","A","T","H">>
FINDLIBS_DISABLE == <<"F","I","N","D","L","I","B","S","_","D","I","S","A","B","L","E","_">>
lib == <<"l","i","b">>
lib64 == <<"l","i","b","6","4">>
yes == <<"y","e","s">>

\* os.environ.get(name, default), name in os.environ
InEnviron(w, name) == name \in DOMAIN w.environ
EnvironGet(w, name, default) == IF InEnviron(w, name) THEN w.environ[name] ELSE default

\* str.rstrip("/")
RECURSIVE RStripSlash(_)
RStripSlash(s) ==
    IF s # <<>> /\ s[Len(s)] = "/" THEN RStripSlash(SubSeq(s, 1, Len(s) - 1)) ELSE s

\* os.path.expanduser / Path.expanduser: a leading "~" alone or before "/"
\* becomes the home directory ($HOME, else the password database's);
\* "~name" of an unknown user is left as it is
ExpandUser(w, p) ==
    IF ~StartsWith(p, <<"~">>) THEN p
    ELSE IF Len(p) > 1 /\ p[2] # "/" THEN p
    ELSE LET userhome == RStripSlash(EnvironGet(w, HOME, PwHome))
             r == userhome \o From(p, 2)
         IN  IF r = <<>> THEN <<"/">> ELSE r

(***************************************************************************)
(* EXTENSIONS, EXTENSIONS_RE: keyed by sys.platform, ".so" by default.     *)
(***************************************************************************)
EXTENSIONS(platform) ==
    CASE platform = "darwin" -> <<".","d","y","l","i","b">>
      [] platform = "win32"  -> <<".","d","l","l">>
      [] OTHER               -> <<".","s","o">>

\* re.match(EXTENSIONS_RE[platform], name):
\*   default  ^.*\.so(.[0-9]+)?$   darwin  ^.*\.dylib$   win32  ^.*\.dll$
\* The dot before [0-9]+ is unescaped: it stands for any one character.
MatchesExtension(platform, name) ==
    CASE platform = "darwin" -> EndsWith(name, <<".","d","y","l","i","b">>)
      [] platform = "win32"  -> EndsWith(name, <<".","d","l","l">>)
      [] OTHER ->
           \/ EndsWith(name, <<".","s","o">>)
           \/ \E k \in 1..Len(name) :
                \* name = <anything> ".so" <one character> <k digits>
                /\ Len(name) >= 3 + 1 + k
                /\ \A i \in (Len(name) - k + 1)..Len(name) : name[i] \in Digits
                /\ SubSeq(name, Len(name) - k - 3, Len(name) - k - 1) = <<".","s","o">>

(***************************************************************************)
(* The strategies that only read the environment.  Each returns a path or  *)
(* None.                                                                   *)
(***************************************************************************)
\* for lib in ("lib", "lib64"): os.path.join(root, lib, lib_name) if it exists
FirstUnder(w, root, lib_name) ==
    IF Exists(w, Join3(root, lib, lib_name)) THEN Join3(root, lib, lib_name)
    ELSE IF Exists(w, Join3(root, lib64, lib_name)) THEN Join3(root, lib64, lib_name)
    ELSE None

\* the first root of the sequence under which the file is found
RECURSIVE FirstInRoots(_, _, _)
FirstInRoots(w, roots, lib_name) ==
    IF roots = <<>> THEN None
    ELSE IF FirstUnder(w, Head(roots), lib_name) # None
         THEN FirstUnder(w, Head(roots), lib_name)
    ELSE FirstInRoots(w, Tail(roots), lib_name)

find_in_python(w, lib_name, pkg_name) ==
    LET roots == IF InEnviron(w, CONDA_PREFIX)
                 THEN <<SysPrefix, w.environ[CONDA_PREFIX]>>
                 ELSE <<SysPrefix>>
    IN  FirstInRoots(w, roots, lib_name)

\* env_prefixes x env_suffixes, in the order of the list comprehension
HomeEnvs(pkg_name) ==
    LET env_prefixes ==
            <<Upper(pkg_name), Lower(pkg_name)>> \o
            (IF EndsWith(pkg_name, lib)
             THEN <<DropLast3(Upper(pkg_name)), DropLast3(Lower(pkg_name))>>
             ELSE <<>>)
        env_suffixes == <<HOME, <<"D","I","R">> >>
    IN  [i \in 1..(2 * Len(env_prefixes)) |->
            env_prefixes[((i - 1) \div 2) + 1] \o <<"_">> \o env_suffixes[((i - 1) % 2) + 1]]

RECURSIVE FindInHomeEnvs(_, _, _)
FindInHomeEnvs(w, envs, lib_name) ==
    IF envs = <<>> THEN None
    ELSE IF InEnviron(w, Head(envs))
            /\ FirstUnder(w, ExpandUser(w, w.environ[Head(envs)]), lib_name) # None
         THEN FirstUnder(w, ExpandUser(w, w.environ[Head(envs)]), lib_name)
    ELSE FindInHomeEnvs(w, Tail(envs), lib_name)

find_in_home(w, lib_name, pkg_name) == FindInHomeEnvs(w, HomeEnvs(pkg_name), lib_name)

\* for home in value.split(":"): os.path.join(home, lib_name) if it exists
RECURSIVE FirstInSegments(_, _, _)
FirstInSegments(w, homes, lib_name) ==
    IF homes = <<>> THEN None
    ELSE IF Exists(w, Join(Head(homes), lib_name)) THEN Join(Head(homes), lib_name)
    ELSE FirstInSegments(w, Tail(homes), lib_name)

find_in_ld_path(w, lib_name, pkg_name) ==
    LET first == FirstInSegments(w, Split(EnvironGet(w, LD_LIBRARY_PATH, <<>>), ":"), lib_name)
    IN  IF first # None THEN first
        ELSE FirstInSegments(w, Split(EnvironGet(w, DYLD_LIBRARY_PATH, <<>>), ":"), lib_name)

SysRoots(w) ==
    << <<"/">>,
       <<"/","u","s","r","/">>,
       <<"/","u","s","r","/","l","o","c","a","l","/">>,
       <<"/","o","p","t","/">>,
       <<"/","o","p","t","/","h","o","m","e","b","r","e","w","/">>,
       ExpandUser(w, <<"~","/",".","l","o","c","a","l">>) >>

find_in_sys(w, lib_name, pkg_name) == FirstInRoots(w, SysRoots(w), lib_name)

\* ctypes.util.find_library(name): the platform's library cache, which
\* answers with a full path, a bare file name, or None
find_library(w, name) == IF name \in DOMAIN w.cache THEN w.cache[name] ELSE None

find_in_ctypes_util(w, lib_name, pkg_name) ==
    Or(find_library(w, lib_name), find_library(w, RemovePrefix(lib_name, lib)))

(***************************************************************************)
(* Outcomes of a call: a returned value or a raised exception, with the    *)
(* effects the call had before it ended.                                   *)
(*   loaded   : the calls of _load_globally, in order: [path, by]          *)
(*   warned   : the warnings.warn calls: <<module_name, declaring module>> *)
(*   expanded : the modules _transitive_preload_deps was called on         *)
(*   probed   : the source ids whose function find called                  *)
(***************************************************************************)
NoEffects == [loaded |-> <<>>, warned |-> <<>>, expanded |-> <<>>, probed |-> <<>>]

Return(v, eff) == [kind |-> "return", exc |-> "", value |-> v, eff |-> eff]
Raise(exc, msg, eff) == [kind |-> "raise", exc |-> exc, value |-> msg, eff |-> eff]

Seqs(e1, e2) ==
    [loaded   |-> e1.loaded \o e2.loaded,
     warned   |-> e1.warned \o e2.warned,
     expanded |-> e1.expanded \o e2.expanded,
     probed   |-> e1.probed \o e2.probed]

(***************************************************************************)
(* _get_paths_from_config                                                  *)
(***************************************************************************)
ConfigLocations(w) ==
    << ExpandUser(w, <<"~","/",".","c","o","n","f","i","g","/","f","i","n","d","l","i","b","s","/","f","i","n","d","l","i","b","s",".","c","o","n","f">>),
       ExpandUser(w, <<"~","/",".","f","i","n","d","l","i","b","s">>) >>

\* {Path(p.replace("$HOME", "~")).expanduser() for p in config["Paths"]}
ConfigPaths(w) ==
    { Canon(ExpandUser(w, Replace(p, <<"$","H","O","M","E">>, <<"~">>))) : p \in w.config.keys }

\* a _get_paths_from_config that does not look at what the paths name
get_paths_unchecked(w) ==
    LET locations == SelectSeq(ConfigLocations(w), LAMBDA p : Exists(w, p))
        paths == ConfigPaths(w)
        relative_paths == {p \in paths : ~IsAbsolute(p)}
    IN  IF Len(locations) = 0 THEN Return({}, NoEffects)
        ELSE IF Len(locations) > 1 THEN Raise("ValueError", <<"multiple", locations>>, NoEffects)
        ELSE IF ~w.config.section THEN Return({}, NoEffects)
        ELSE IF relative_paths # {} THEN Raise("ValueError", <<"relative", relative_paths>>, NoEffects)
        ELSE Return(paths, NoEffects)

get_paths_from_config(w) ==
    LET locations == SelectSeq(ConfigLocations(w), LAMBDA p : Exists(w, p))
        paths == ConfigPaths(w)
        relative_paths == {p \in paths : ~IsAbsolute(p)}
        files == {p \in paths : ~IsDir(w, p)}
    IN  IF Len(locations) = 0 THEN Return({}, NoEffects)
        ELSE IF Len(locations) > 1 THEN Raise("ValueError", <<"multiple", locations>>, NoEffects)
        ELSE IF ~w.config.section THEN Return({}, NoEffects)
        ELSE IF relative_paths # {} THEN Raise("ValueError", <<"relative", relative_paths>>, NoEffects)
        ELSE IF files # {} THEN Raise("ValueError", <<"files", files>>, NoEffects)
        ELSE Return(paths, NoEffects)

\* for root in paths: the set is iterated in an order the code does not
\* choose; `roots` is that order
SearchConfigPaths(w, paths, roots, lib_name) ==
    IF paths.kind = "raise" THEN paths
    ELSE Return(FirstInRoots(w, SelectSeq(roots, LAMBDA r : r \in paths.value), lib_name),
                NoEffects)

find_in_config_paths(w, roots, lib_name, pkg_name) ==
    SearchConfigPaths(w, get_paths_from_config(w), roots, lib_name)

(***************************************************************************)
(* Modules and the dependency preload.                                     *)
(***************************************************************************)
\* importlib.import_module(name) succeeds
Importable(w, name) == name \in DOMAIN w.modules

\* Path(module.__file__).parent
ModuleDir(name) == SitePackages \o <<"/">> \o name

\* _load_globally(path): CDLL(path, mode=RTLD_GLOBAL), recorded
load_globally(path, by) == [path |-> path, by |-> by]

\* _single_preload_deps(path): every name of os.listdir(path) that matches
\* the platform's pattern is loaded, in listing order
single_preload_deps(w, listing, path) ==
    LET names == SelectSeq(listing[path], LAMBDA n : MatchesExtension(w.platform, n))
    IN  [i \in 1..Len(names) |-> load_globally(path \o <<"/">> \o names[i], "preload")]

\* the two ext_path directories of an imported dependency, those that exist
PreloadDirs(w, listing, name) ==
    LET dirs == << ModuleDir(name) \o <<"/">> \o lib, ModuleDir(name) \o <<"/">> \o lib64 >>
        l1 == IF Exists(w, dirs[1]) THEN single_preload_deps(w, listing, dirs[1]) ELSE <<>>
        l2 == IF Exists(w, dirs[2]) THEN single_preload_deps(w, listing, dirs[2]) ELSE <<>>
    IN  l1 \o l2

\* _transitive_preload_deps(module), `depth` frames deep.  The result is the
\* effects and exc: "" when the call returns, "RecursionError" when the
\* interpreter's recursion limit ends it.  PreloadLoop is the for loop from
\* its i-th element on.
\* PreloadImported is the rest of the try block once rec_into is imported
\* and the recursive call has ended with `rec`.
RECURSIVE transitive_preload_deps(_, _, _, _)
RECURSIVE PreloadLoop(_, _, _, _, _, _)
RECURSIVE PreloadImported(_, _, _, _, _, _, _)
\* a loop body that loads the dependency's own objects before those of the
\* dependency's dependencies
PreloadImportedOwnFirst(w, listing, module, i, depth, acc, rec) ==
    IF rec.exc # ""
    THEN [exc |-> rec.exc, eff |-> Seqs(acc, rec.eff)]
    ELSE PreloadLoop(w, listing, module, i + 1, depth,
             [Seqs(acc, rec.eff) EXCEPT
                 !.loaded = acc.loaded \o PreloadDirs(w, listing, w.modules[module].deps[i])
                                \o rec.eff.loaded])

PreloadImported(w, listing, module, i, depth, acc, rec) ==
    IF rec.exc # ""
    THEN \* not an ImportError: it leaves the loop and the function
         [exc |-> rec.exc, eff |-> Seqs(acc, rec.eff)]
    ELSE PreloadLoop(w, listing, module, i + 1, depth,
             [Seqs(acc, rec.eff) EXCEPT
                 !.loaded = @ \o PreloadDirs(w, listing, w.modules[module].deps[i])])

PreloadLoop(w, listing, module, i, depth, acc) ==
    IF i > Len(w.modules[module].deps) THEN [exc |-> "", eff |-> acc]
    ELSE IF ~Importable(w, w.modules[module].deps[i])
         THEN \* except ImportError: warn and go on
              PreloadLoop(w, listing, module, i + 1, depth,
                  [acc EXCEPT !.warned = Append(@, <<w.modules[module].deps[i], module>>)])
    ELSE PreloadImported(w, listing, module, i, depth, acc,
             transitive_preload_deps(w, listing, w.modules[module].deps[i], depth + 1))

transitive_preload_deps(w, listing, module, depth) ==
    IF depth > RecursionLimit THEN [exc |-> "RecursionError", eff |-> NoEffects]
    ELSE IF ~w.modules[module].hasdeps
         THEN [exc |-> "", eff |-> [NoEffects EXCEPT !.expanded = <<module>>]]
    ELSE PreloadLoop(w, listing, module, 1, depth, [NoEffects EXCEPT !.expanded = <<module>>])

\* _find_in_package(lib_name, pkg_name): preload_deps is None in every call
\* find makes, so it is sys.platform != "darwin"
\* the rest of the try block once the preload has ended with `pre`
SearchPackage(w, lib_name, pkg_name, pre) ==
    LET in_lib == ModuleDir(pkg_name) \o <<"/">> \o lib \o <<"/">> \o lib_name
        in_lib64 == ModuleDir(pkg_name) \o <<"/">> \o lib64 \o <<"/">> \o lib_name
    IN  IF pre.exc # "" THEN Raise(pre.exc, <<>>, pre.eff)
        ELSE IF Exists(w, in_lib) THEN Return(in_lib, pre.eff)
        ELSE IF Exists(w, in_lib64) THEN Return(in_lib64, pre.eff)
        ELSE Return(None, pre.eff)

find_in_package(w, listing, lib_name, pkg_name) ==
    IF ~Importable(w, pkg_name)
    THEN \* except ImportError: pass
         Return(None, NoEffects)
    ELSE SearchPackage(w, lib_name, pkg_name,
             IF w.platform # "darwin"
             THEN transitive_preload_deps(w, listing, pkg_name, 1)
             ELSE [exc |-> "", eff |-> NoEffects])

(***************************************************************************)
(* find and load                                                           *)
(***************************************************************************)
\* a `sources` tuple with SYS consulted before LD_PATH
SourcesSysFirst == <<"PACKAGE", "PYTHON", "HOME", "CONFIG_PATHS", "SYS", "LD_PATH", "CTYPES_UTIL">>

\* the `sources` tuple of find: the source names, in order
Sources == <<"PACKAGE", "PYTHON", "HOME", "CONFIG_PATHS", "LD_PATH", "SYS", "CTYPES_UTIL">>

\* the source name as the characters of the f-string
SourceChars(name) ==
    CASE name = "PACKAGE"      -> <<"P","A","C","K","A","G","E">>
      [] name = "PYTHON"       -> <<"P","Y","T","H","O","N">>
      [] name = "HOME"         -> <<"H","O","M","E">>
      [] name = "CONFIG_PATHS" -> <<"C","O","N","F","I","G","_","P","A","T","H","S">>
      [] name = "LD_PATH"      -> <<"L","D","_","P","A","T","H">>
      [] name = "SYS"          -> <<"S","Y","S">>
      [] name = "CTYPES_UTIL"  -> <<"C","T","Y","P","E","S","_","U","T","I","L">>

\* a switch that disables its source whenever the variable is set
EnabledWhenUnset(w, source_name) ==
    ~InEnviron(w, FINDLIBS_DISABLE \o SourceChars(source_name))

\* os.environ.get(f"FINDLIBS_DISABLE_{source_name}", None) != "yes"
Enabled(w, source_name) ==
    EnvironGet(w, FINDLIBS_DISABLE \o SourceChars(source_name), None) # yes

\* source(lib_name, pkg_name) for the source of that name
Probe(w, ord, source_name, lib_name, pkg_name) ==
    CASE source_name = "PACKAGE"      -> find_in_package(w, ord.listing, lib_name, pkg_name)
      [] source_name = "PYTHON"       -> Return(find_in_python(w, lib_name, pkg_name), NoEffects)
      [] source_name = "HOME"         -> Return(find_in_home(w, lib_name, pkg_name), NoEffects)
      [] source_name = "CONFIG_PATHS" -> find_in_config_paths(w, ord.roots, lib_name, pkg_name)
      [] source_name = "LD_PATH"      -> Return(find_in_ld_path(w, lib_name, pkg_name), NoEffects)
      [] source_name = "SYS"          -> Return(find_in_sys(w, lib_name, pkg_name), NoEffects)
      [] source_name = "CTYPES_UTIL"  -> Return(find_in_ctypes_util(w, lib_name, pkg_name), NoEffects)

\* the loop over sources_filtered, from the i-th source on; FindProbed is
\* the loop body once the i-th source has answered `result`
RECURSIVE FindLoop(_, _, _, _, _, _)
RECURSIVE FindProbed(_, _, _, _, _, _, _)
FindProbed(w, ord, lib_name, pkg_name, i, eff, result) ==
    IF result.kind = "raise" THEN [result EXCEPT !.eff = eff]
    ELSE IF Truthy(result.value) THEN Return(result.value, eff)
    ELSE FindLoop(w, ord, lib_name, pkg_name, i + 1, eff)

\* the effects so far, with those of the i-th source's call
Probed(acc, i, result) == [Seqs(acc, result.eff) EXCEPT !.probed = Append(@, Sources[i])]

FindLoopBody(w, ord, lib_name, pkg_name, i, acc, result) ==
    FindProbed(w, ord, lib_name, pkg_name, i, Probed(acc, i, result), result)

FindLoop(w, ord, lib_name, pkg_name, i, acc) ==
    IF i > Len(Sources) THEN Return(None, acc)
    ELSE IF ~Enabled(w, Sources[i]) THEN FindLoop(w, ord, lib_name, pkg_name, i + 1, acc)
    ELSE FindLoopBody(w, ord, lib_name, pkg_name, i, acc,
                      Probe(w, ord, Sources[i], lib_name, pkg_name))

\* find(lib_name, pkg_name)
find(w, ord, lib_name, pkg_name) ==
    FindLoop(w, ord,
             lib \o lib_name \o EXTENSIONS(w.platform),
             IF Truthy(pkg_name) THEN pkg_name ELSE lib_name \o lib,
             1, NoEffects)

\* a load that hands the bare library name to CDLL when find found nothing
LoadFoundOrNamed(path, lib_name, pkg_name) ==
    IF path.kind = "raise" THEN path
    ELSE IF ~Truthy(path.value)
         THEN Return([handle |-> lib_name],
                     [path.eff EXCEPT !.loaded = Append(@, load_globally(lib_name, "load"))])
    ELSE Return([handle |-> path.value],
                [path.eff EXCEPT !.loaded = Append(@, load_globally(path.value, "load"))])

\* the body of load once find has ended with `path`
LoadFound(path, lib_name, pkg_name) ==
    IF path.kind = "raise" THEN path
    ELSE IF ~Truthy(path.value)
         THEN Raise("ValueError",
                    <<"u","n","a","b","l","e"," ","t","o"," ","f","i","n","d"," ">>
                        \o (IF Truthy(pkg_name) THEN pkg_name \o <<".">> ELSE <<>>) \o lib_name,
                    path.eff)
    ELSE Return([handle |-> path.value],
                [path.eff EXCEPT !.loaded = Append(@, load_globally(path.value, "load"))])

\* load(lib_name, pkg_name)
load(w, ord, lib_name, pkg_name) == LoadFound(find(w, ord, lib_name, pkg_name), lib_name, pkg_name)

(***************************************************************************)
(* Orders the code does not choose: os.listdir's listing order and the     *)
(* iteration order of the set of config paths.                             *)
(***************************************************************************)
Perms(S) ==
    IF S = {} THEN {<<>>}
    ELSE {s \in [1..Cardinality(S) -> S] : \A i, j \in 1..Cardinality(S) : s[i] = s[j] => i = j}

\* the names os.listdir(d) gives, as a set
Children(w, d) ==
    { Split(From(f, Len(d) + 2), "/")[1] : f \in {g \in w.files \cup w.dirs : IsAncestor(d, g)} }

\* the directories _single_preload_deps may be called on
ListableDirs(w) ==
    { d \in { ModuleDir(n) \o <<"/">> \o l : n \in DOMAIN w.modules, l \in {lib, lib64} } :
        Exists(w, d) }

Listings(w) ==
    LET D == ListableDirs(w)
    IN  { f \in [D -> UNION {Perms(Children(w, d)) : d \in D}] :
            \A d \in D : f[d] \in Perms(Children(w, d)) }

RootOrders(w) ==
    LET paths == get_paths_from_config(w)
    IN  IF paths.kind = "return" THEN Perms(paths.value) ELSE {<<>>}

Orders(w) == { [listing |-> l, roots |-> r] : l \in Listings(w), r \in RootOrders(w) }

(***************************************************************************)
(* Worlds.  A world is the empty environment (linux, nothing set, nothing  *)
(* installed, no config file) changed by a bounded set of facts, each a    *)
(* record [t, k, v]:                                                       *)
(*   env     k = variable name, v = <<value>>                              *)
(*   file    k = path of a regular file                                    *)
(*   dir     k = path of a directory                                       *)
(*   module  k = name of an importable module, v = findlibs_dependencies   *)
(*   plain   k = name of an importable module without that attribute       *)
(*   section the config file has a Paths section                           *)
(*   key     k = a key of the Paths section                                *)
(*   conf    k = path of a config file, v = the keys of its Paths section  *)
(*   cache   k = a name find_library answers, v = <<its answer>>           *)
(*   darwin, win32   sys.platform                                          *)
(***************************************************************************)
Fact(t, k, v) == [t |-> t, k |-> k, v |-> v]

OfType(F, t) == {f \in F : f.t = t}

\* the facts that put a regular file in the world
FileFacts(F) == OfType(F, "file") \cup OfType(F, "conf")

Consistent(F) ==
    /\ \A f, g \in OfType(F, "env")   : f.k = g.k => f = g
    /\ \A f, g \in OfType(F, "cache") : f.k = g.k => f = g
    /\ \A f, g \in OfType(F, "module") \cup OfType(F, "plain") : f.k = g.k => f = g
    /\ \A f, g \in FileFacts(F) : f.k = g.k => f = g
    /\ \A f \in FileFacts(F) : \A g \in OfType(F, "dir") : f.k # g.k
    /\ \A f \in FileFacts(F) : \A g \in F : g.t \in {"file", "conf", "dir"} => ~IsAncestor(f.k, g.k)
    /\ ~(OfType(F, "darwin") # {} /\ OfType(F, "win32") # {})

MkWorld(F) ==
    [platform |-> IF OfType(F, "darwin") # {} THEN "darwin"
                  ELSE IF OfType(F, "win32") # {} THEN "win32" ELSE "linux",
     environ  |-> [n \in {f.k : f \in OfType(F, "env")} |->
                      (CHOOSE f \in OfType(F, "env") : f.k = n).v[1]],
     files    |-> {f.k : f \in FileFacts(F)},
     dirs     |-> {f.k : f \in OfType(F, "dir")},
     modules  |-> [n \in {f.k : f \in OfType(F, "module") \cup OfType(F, "plain")} |->
                      LET f == CHOOSE g \in OfType(F, "module") \cup OfType(F, "plain") : g.k = n
                      IN  [hasdeps |-> f.t = "module", deps |-> f.v]],
     config   |-> [section |-> OfType(F, "section") \cup OfType(F, "key") \cup OfType(F, "conf") # {},
                   keys    |-> {f.k : f \in OfType(F, "key")}
                               \cup UNION {{f.v[i] : i \in 1..Len(f.v)} : f \in OfType(F, "conf")}],
     cache    |-> [n \in {f.k : f \in OfType(F, "cache")} |->
                      (CHOOSE f \in OfType(F, "cache") : f.k = n).v[1]]]

\* the subsets of U of at most n elements
RECURSIVE SubsetsUpTo(_, _)
SubsetsUpTo(U, n) ==
    IF n = 0 THEN {{}}
    ELSE LET P == SubsetsUpTo(U, n - 1) IN P \cup {p \cup {x} : p \in P, x \in U}

Worlds(U, n) == { MkWorld(F) : F \in {G \in SubsetsUpTo(U, n) : Consistent(G)} }

(***************************************************************************)
(* The facts the worlds of each specification are drawn from.              *)
(***************************************************************************)
\* the library and package names of the calls
LibNames == { <<"x">> }
PkgNames == { None, <<"A","b">> }

\* FINDLIBS_DISABLE_<source>=<value> for every source
Switches(value) ==
    { Fact("env", FINDLIBS_DISABLE \o SourceChars(Sources[i]), <<value>>) : i \in 1..Len(Sources) }

\* the resolution pipeline: a place for every source, the switches, a config
\* file that is right and one that is wrong
PipelineFacts ==
    Switches(yes) \cup Switches(<<"n","o">>) \cup
    {
      \* /m/xlib/lib64/libx.so
      Fact("file", <<"/","m","/","x","l","i","b","/","l","i","b","6","4","/","l","i","b","x",".","s","o">>, <<>>),
      \* /p/lib/libx.so
      Fact("file", <<"/","p","/","l","i","b","/","l","i","b","x",".","s","o">>, <<>>),
      \* /a/lib/libx.so
      Fact("file", <<"/","a","/","l","i","b","/","l","i","b","x",".","s","o">>, <<>>),
      \* /usr/lib/libx.so
      Fact("file", <<"/","u","s","r","/","l","i","b","/","l","i","b","x",".","s","o">>, <<>>),
      \* libx.so in the working directory
      Fact("file", <<"l","i","b","x",".","s","o">>, <<>>),
      \* ~/.findlibs with [Paths] /a
      Fact("conf", <<"/","h","/",".","f","i","n","d","l","i","b","s">>, <<<<"/","a">>>>),
      \* ~/.findlibs with [Paths] rel
      Fact("conf", <<"/","h","/",".","f","i","n","d","l","i","b","s">>, <<<<"r","e","l">>>>),
      \* ~/.config/findlibs/findlibs.conf without a Paths section
      Fact("file", <<"/","h","/",".","c","o","n","f","i","g","/","f","i","n","d","l","i","b","s","/","f","i","n","d","l","i","b","s",".","c","o","n","f">>, <<>>),
      \* X_HOME=/a
      Fact("env", <<"X","_","H","O","M","E">>, <<<<"/","a">>>>),
      \* AB_DIR=/a
      Fact("env", <<"A","B","_","D","I","R">>, <<<<"/","a">>>>),
      \* LD_LIBRARY_PATH=/b:/a/lib
      Fact("env", <<"L","D","_","L","I","B","R","A","R","Y","_","P","A","T","H">>, <<<<"/","b",":","/","a","/","l","i","b">>>>),
      \* import xlib succeeds, no findlibs_dependencies
      Fact("plain", <<"x","l","i","b">>, <<>>),
      \* find_library("x.so") = "libx.so.1"
      Fact("cache", <<"x",".","s","o">>, <<<<"l","i","b","x",".","s","o",".","1">>>>)
    }

\* the preload: modules xlib, b and c with their declarations and objects,
\* and places where later sources find the library
DepFacts ==
    {
      \* xlib.findlibs_dependencies = ["b"]
      Fact("module", <<"x","l","i","b">>, <<<<"b">>>>),
      \* xlib.findlibs_dependencies = ["b", "c"]
      Fact("module", <<"x","l","i","b">>, <<<<"b">>, <<"c">>>>),
      \* import b succeeds, no findlibs_dependencies
      Fact("plain", <<"b">>, <<>>),
      \* b.findlibs_dependencies = ["c"]
      Fact("module", <<"b">>, <<<<"c">>>>),
      \* b.findlibs_dependencies = ["xlib"]
      Fact("module", <<"b">>, <<<<"x","l","i","b">>>>),
      \* import c succeeds, no findlibs_dependencies
      Fact("plain", <<"c">>, <<>>),
      \* c.findlibs_dependencies = ["b"]
      Fact("module", <<"c">>, <<<<"b">>>>),
      \* /m/xlib/lib/libx.so
      Fact("file", <<"/","m","/","x","l","i","b","/","l","i","b","/","l","i","b","x",".","s","o">>, <<>>),
      \* /m/b/lib/libb.so
      Fact("file", <<"/","m","/","b","/","l","i","b","/","l","i","b","b",".","s","o">>, <<>>),
      \* /m/b/lib64/libb.so.1
      Fact("file", <<"/","m","/","b","/","l","i","b","6","4","/","l","i","b","b",".","s","o",".","1">>, <<>>),
      \* /m/b/lib/b.txt
      Fact("file", <<"/","m","/","b","/","l","i","b","/","b",".","t","x","t">>, <<>>),
      \* /m/c/lib/libc.so
      Fact("file", <<"/","m","/","c","/","l","i","b","/","l","i","b","c",".","s","o">>, <<>>),
      \* /usr/lib/libx.so
      Fact("file", <<"/","u","s","r","/","l","i","b","/","l","i","b","x",".","s","o">>, <<>>),
      \* /a/lib/libx.so
      Fact("file", <<"/","a","/","l","i","b","/","l","i","b","x",".","s","o">>, <<>>),
      \* X_HOME=/a
      Fact("env", <<"X","_","H","O","M","E">>, <<<<"/","a">>>>),
      \* sys.platform = "darwin"
      Fact("darwin", <<>>, <<>>)
    }

\* the config file: its two places, its Paths keys and what they name
ConfigFacts ==
    {
      \* ~/.findlibs
      Fact("file", <<"/","h","/",".","f","i","n","d","l","i","b","s">>, <<>>),
      \* ~/.config/findlibs/findlibs.conf
      Fact("file", <<"/","h","/",".","c","o","n","f","i","g","/","f","i","n","d","l","i","b","s","/","f","i","n","d","l","i","b","s",".","c","o","n","f">>, <<>>),
      \* the file has a [Paths] section
      Fact("section", <<>>, <<>>),
      \* [Paths] /a
      Fact("key", <<"/","a">>, <<>>),
      \* [Paths] rel
      Fact("key", <<"r","e","l">>, <<>>),
      \* [Paths] ~/d
      Fact("key", <<"~","/","d">>, <<>>),
      \* [Paths] $HOME/d
      Fact("key", <<"$","H","O","M","E","/","d">>, <<>>),
      \* [Paths] /f
      Fact("key", <<"/","f">>, <<>>),
      \* the directory /a
      Fact("dir", <<"/","a">>, <<>>),
      \* the directory /h/d
      Fact("dir", <<"/","h","/","d">>, <<>>),
      \* the file /f
      Fact("file", <<"/","f">>, <<>>),
      \* /a/lib/libx.so
      Fact("file", <<"/","a","/","l","i","b","/","l","i","b","x",".","s","o">>, <<>>),
      \* HOME=r
      Fact("env", <<"H","O","M","E">>, <<<<"r">>>>)
    }

\* calls that follow one another: a config file with one root or two, the
\* library under the roots and in a system directory
AgainFacts ==
    {
      \* ~/.findlibs with [Paths] /a and /c
      Fact("conf", <<"/","h","/",".","f","i","n","d","l","i","b","s">>, <<<<"/","a">>, <<"/","c">>>>),
      \* ~/.findlibs with [Paths] /a
      Fact("conf", <<"/","h","/",".","f","i","n","d","l","i","b","s">>, <<<<"/","a">>>>),
      \* the directory /c
      Fact("dir", <<"/","c">>, <<>>),
      \* /a/lib/libx.so
      Fact("file", <<"/","a","/","l","i","b","/","l","i","b","x",".","s","o">>, <<>>),
      \* /c/lib/libx.so
      Fact("file", <<"/","c","/","l","i","b","/","l","i","b","x",".","s","o">>, <<>>),
      \* /c/lib64/libx.so
      Fact("file", <<"/","c","/","l","i","b","6","4","/","l","i","b","x",".","s","o">>, <<>>),
      \* /usr/lib/libx.so
      Fact("file", <<"/","u","s","r","/","l","i","b","/","l","i","b","x",".","s","o">>, <<>>)
    }

(***************************************************************************)
(* The state: the environment, and the last top-level call made in it.     *)
(***************************************************************************)
VARIABLES
    world,      \* the environment the call reads
    pc,         \* "idle" before a call, "done" after it, "again" after
                \* find was called once more
    call,       \* [op, lib_name, pkg_name, ord]
    outcome     \* what the call returned or raised, and its effects

vars == <<world, pc, call, outcome>>

NoCall == [op |-> "", lib_name |-> <<>>, pkg_name |-> None,
           ord |-> [listing |-> <<>>, roots |-> <<>>]]

InitIn(W) ==
    /\ world \in W
    /\ pc = "idle"
    /\ call = NoCall
    /\ outcome = Return(None, NoEffects)

CallFind(lib_name, pkg_name) ==
    /\ pc = "idle"
    /\ \E ord \in Orders(world) :
        /\ call' = [op |-> "find", lib_name |-> lib_name, pkg_name |-> pkg_name, ord |-> ord]
        /\ outcome' = find(world, ord, lib_name, pkg_name)
    /\ pc' = "done"
    /\ UNCHANGED world

CallLoad(lib_name, pkg_name) ==
    /\ pc = "idle"
    /\ \E ord \in Orders(world) :
        /\ call' = [op |-> "load", lib_name |-> lib_name, pkg_name |-> pkg_name, ord |-> ord]
        /\ outcome' = load(world, ord, lib_name, pkg_name)
    /\ pc' = "done"
    /\ UNCHANGED world

CallGetPathsFromConfig ==
    /\ pc = "idle"
    /\ call' = [NoCall EXCEPT !.op = "_get_paths_from_config"]
    /\ outcome' = get_paths_from_config(world)
    /\ pc' = "done"
    /\ UNCHANGED world

\* find called once more with the same arguments, nothing changed since
CallFindAgain ==
    /\ pc = "done"
    /\ call.op = "find"
    /\ \E ord \in Orders(world) :
        /\ call' = [call EXCEPT !.ord = ord]
        /\ outcome' = find(world, ord, call.lib_name, call.pkg_name)
    /\ pc' = "again"
    /\ UNCHANGED world

\* between two calls the filesystem and the environment become those of W
ChangeWorld(W) ==
    /\ pc \in {"done", "again"}
    /\ \E w \in W \ {world} : world' = w
    /\ pc' = "idle"
    /\ UNCHANGED <<call, outcome>>

Next ==
    \/ \E lib_name \in LibNames, pkg_name \in PkgNames : CallFind(lib_name, pkg_name)
    \/ \E lib_name \in LibNames, pkg_name \in PkgNames : CallLoad(lib_name, pkg_name)
    \/ CallGetPathsFromConfig

\* the resolution pipeline
Init == InitIn(Worlds(PipelineFacts, MaxFacts))
Spec == Init /\ [][Next]_vars

\* the dependency preload
InitDeps == InitIn(Worlds(DepFacts, MaxDepFacts))
SpecDeps == InitDeps /\ [][Next]_vars

\* the config file
InitConfig == InitIn(Worlds(ConfigFacts, MaxConfFacts))
SpecConfig == InitConfig /\ [][Next]_vars

\* calls that follow one another, in an environment that may change
AgainWorlds == Worlds(AgainFacts, MaxAgainFacts)

NextAgain ==
    \/ \E lib_name \in LibNames, pkg_name \in PkgNames : CallFind(lib_name, pkg_name)
    \/ \E lib_name \in LibNames, pkg_name \in PkgNames : CallLoad(lib_name, pkg_name)
    \/ CallGetPathsFromConfig
    \/ CallFindAgain
    \/ ChangeWorld(AgainWorlds)

InitAgain == InitIn(AgainWorlds)
SpecAgain == InitAgain /\ [][NextAgain]_vars

(***************************************************************************)
(* What the properties below speak of: the finished call, the arguments    *)
(* find hands to every source, and what each source answers on its own.    *)
(***************************************************************************)
FindDone == pc = "done" /\ call.op = "find"
LoadDone == pc = "done" /\ call.op = "load"

\* the order the contract fixes
ContractOrder == <<"PACKAGE", "PYTHON", "HOME", "CONFIG_PATHS", "LD_PATH", "SYS", "CTYPES_UTIL">>

FileName == lib \o call.lib_name \o EXTENSIONS(world.platform)
PkgName == IF Truthy(call.pkg_name) THEN call.pkg_name ELSE call.lib_name \o lib

\* the switch of the k-th source is set to "yes" in environment w
SwitchedOff(w, k) ==
    LET name == FINDLIBS_DISABLE \o SourceChars(ContractOrder[k])
    IN  name \in DOMAIN w.environ /\ w.environ[name] = yes

\* what the k-th source answers in environment w
AnswerIn(w, k) == Probe(w, call.ord, ContractOrder[k], FileName, PkgName)
Answer(k) == AnswerIn(world, k)

\* the k-th source is enabled and yields a non-empty result
MatchesIn(w, k) ==
    /\ ~SwitchedOff(w, k)
    /\ AnswerIn(w, k).kind = "return"
    /\ Truthy(AnswerIn(w, k).value)
Matches(k) == MatchesIn(world, k)

\* the k-th source is enabled and ends the loop: it matches or it raises
StopsIn(w, k) ==
    /\ ~SwitchedOff(w, k)
    /\ (AnswerIn(w, k).kind = "raise" \/ Truthy(AnswerIn(w, k).value))
Stops(k) == StopsIn(world, k)

\* the outcome of the call is what the k-th source answered
SameAs(o, a) == o.kind = a.kind /\ o.exc = a.exc /\ o.value = a.value

(***************************************************************************)
(* C1                                                                      *)
(***************************************************************************)
\* C1 as stated: find returns the path of the earliest enabled source that
\* matches, and None when no enabled source matches.
C1_AsStated ==
    FindDone =>
        /\ \A k \in 1..7 :
              (Matches(k) /\ \A j \in 1..(k - 1) : ~Matches(j))
                  => (outcome.kind = "return" /\ outcome.value = Answer(k).value)
        /\ (\A k \in 1..7 : ~Matches(k))
                  => (outcome.kind = "return" /\ outcome.value = None)

\* C1: find ends at the first enabled source, in the order PACKAGE, PYTHON,
\* HOME, CONFIG_PATHS, LD_PATH, SYS, CTYPES_UTIL, that yields a non-empty
\* result or raises: it returns that source's path, whether or not a later
\* source matches too, or lets that source's exception out; it returns None
\* when every enabled source yields an empty result.
C1_FirstStop ==
    FindDone =>
        /\ \A k \in 1..7 :
              (Stops(k) /\ \A j \in 1..(k - 1) : ~Stops(j)) => SameAs(outcome, Answer(k))
        /\ (\A k \in 1..7 : ~Stops(k))
                  => (outcome.kind = "return" /\ outcome.value = None)

\* two enabled sources match with different paths, none before them stops
\* the loop, and find returned the path of the earlier one
C1_Witness ==
    /\ FindDone
    /\ \E k \in 1..7 : \E j \in (k + 1)..7 :
          /\ Matches(k) /\ Matches(j)
          /\ \A i \in 1..(k - 1) : ~Stops(i)
          /\ Answer(k).value # Answer(j).value
          /\ outcome.kind = "return"
          /\ outcome.value = Answer(k).value

(***************************************************************************)
(* C2                                                                      *)
(***************************************************************************)
SwitchName(k) == FINDLIBS_DISABLE \o SourceChars(ContractOrder[k])

\* the switch of the k-th source is set, to something other than "yes"
SwitchedOther(w, k) == SwitchName(k) \in DOMAIN w.environ /\ w.environ[SwitchName(k)] # yes

\* the environment without the variable `name`
Unset(w, name) == [w EXCEPT !.environ = [n \in (DOMAIN @) \ {name} |-> @[n]]]

\* the library is discoverable at the place of the k-th source and nowhere else
OnlyAt(k) ==
    /\ Answer(k).kind = "return" /\ Truthy(Answer(k).value)
    /\ \A j \in (1..7) \ {k} : ~(Answer(j).kind = "return" /\ Truthy(Answer(j).value))

\* some enabled source other than the k-th raises
OtherRaises(k) == \E j \in (1..7) \ {k} : ~SwitchedOff(world, j) /\ Answer(j).kind = "raise"

Skipped(k) == \A i \in 1..Len(outcome.eff.probed) : outcome.eff.probed[i] # ContractOrder[k]

\* any other value of the switch, or its absence, changes nothing
SwitchIgnored(k) ==
    SwitchedOther(world, k) =>
        outcome = find(Unset(world, SwitchName(k)), call.ord, call.lib_name, call.pkg_name)

\* C2 as stated: a switch set to "yes" makes find skip its source, so that a
\* library discoverable only there yields None; any other value changes
\* nothing.
C2_AsStated ==
    FindDone =>
        \A k \in 1..7 :
            /\ SwitchedOff(world, k) => Skipped(k)
            /\ (SwitchedOff(world, k) /\ OnlyAt(k))
                   => (outcome.kind = "return" /\ outcome.value = None)
            /\ SwitchIgnored(k)

\* C2: a switch set to exactly "yes" makes find skip its source (the probe
\* is never called); a library discoverable only at that source then yields
\* None, unless another enabled source raises, and then that exception comes
\* out of find; any other value of the switch, or its absence, leaves the
\* source enabled and changes neither the result nor the sources probed.
C2_Switch ==
    FindDone =>
        \A k \in 1..7 :
            /\ SwitchedOff(world, k) => Skipped(k)
            /\ (SwitchedOff(world, k) /\ OnlyAt(k)) =>
                   IF OtherRaises(k) THEN outcome.kind = "raise"
                   ELSE outcome.kind = "return" /\ outcome.value = None
            /\ SwitchIgnored(k)

\* the library is only at a source that is switched off, another source has
\* its switch set to something else and was probed, and find returned None
C2_Witness ==
    /\ FindDone
    /\ \E k \in 1..7 : \E j \in (1..7) \ {k} :
          /\ SwitchedOff(world, k) /\ OnlyAt(k) /\ Skipped(k)
          /\ SwitchedOther(world, j) /\ ~Skipped(j)
          /\ outcome.kind = "return" /\ outcome.value = None

(***************************************************************************)
(* C3                                                                      *)
(***************************************************************************)
\* the modules m declares that can be imported
DeclaredBy(m) ==
    IF m \in DOMAIN world.modules /\ world.modules[m].hasdeps
    THEN {world.modules[m].deps[i] : i \in 1..Len(world.modules[m].deps)} \cap DOMAIN world.modules
    ELSE {}

\* the modules reached from those of S by at most n declarations
RECURSIVE DeclaredWithin(_, _)
DeclaredWithin(S, n) ==
    IF n = 0 THEN S
    ELSE DeclaredWithin(S \cup UNION {DeclaredBy(m) : m \in S}, n - 1)

\* every transitively declared dependency of m
Dependencies(m) == DeclaredWithin(DeclaredBy(m), Cardinality(DOMAIN world.modules))

\* the shared objects in the lib and lib64 directories of module d
SharedObjects(d) ==
    UNION { { ModuleDir(d) \o <<"/">> \o l \o <<"/">> \o n :
                n \in {c \in Children(world, ModuleDir(d) \o <<"/">> \o l) :
                          MatchesExtension(world.platform, c)} } :
            l \in {lib, lib64} }

Loaded == outcome.eff.loaded

\* the positions of Loaded at which path o is loaded
LoadsOf(o) == {i \in 1..Len(Loaded) : Loaded[i].path = o}

\* load returned the library the PACKAGE source found, after a preload
LoadedFromPackage ==
    /\ LoadDone
    /\ outcome.kind = "return"
    /\ outcome.eff.probed = <<"PACKAGE">>
    /\ world.platform # "darwin"

\* C3: when load resolves the library through its installed package with
\* the preload enabled, every shared object of every transitively declared
\* dependency is loaded before the library itself, which is loaded last, and
\* every shared object of the dependencies a dependency D declares is loaded
\* before any shared object of D.
C3_DependencyFirst ==
    LoadedFromPackage =>
        /\ Loaded[Len(Loaded)] = load_globally(outcome.value.handle, "load")
        /\ \A d \in Dependencies(PkgName) : \A o \in SharedObjects(d) :
              /\ \E i \in LoadsOf(o) : i < Len(Loaded) /\ Loaded[i].by = "preload"
              /\ \A e \in DeclaredBy(d) : \A q \in SharedObjects(e) :
                    \A i \in LoadsOf(o) : \E j \in LoadsOf(q) : j < i

\* the package declares a dependency with a shared object that declares a
\* dependency with a shared object, and load returned the package's library
C3_Witness ==
    /\ LoadedFromPackage
    /\ \E d \in DeclaredBy(PkgName) : \E e \in DeclaredBy(d) :
          /\ SharedObjects(d) # {} /\ SharedObjects(e) # {}
          /\ d # e

(***************************************************************************)
(* C4                                                                      *)
(***************************************************************************)
\* the error of load: a ValueError naming the library, and the package when given
NotFoundError ==
    /\ outcome.kind = "raise"
    /\ outcome.exc = "ValueError"
    /\ outcome.value = <<"u","n","a","b","l","e"," ","t","o"," ","f","i","n","d"," ">>
                         \o (IF call.pkg_name # None THEN call.pkg_name \o <<".">> ELSE <<>>)
                         \o call.lib_name

\* the loads made by load itself
FinalLoads == {i \in 1..Len(Loaded) : Loaded[i].by = "load"}

FoundNothing(found) == found.kind = "return" /\ ~Truthy(found.value)
FoundPath(found) == found.kind = "return" /\ Truthy(found.value)

\* load has done what it does when find answers `found`
LoadFollows(found) ==
    /\ NotFoundError <=> FoundNothing(found)
    /\ FoundNothing(found) => (FinalLoads = {} /\ Loaded = found.eff.loaded)
    /\ FoundPath(found) =>
          /\ outcome.kind = "return"
          /\ outcome.value = [handle |-> found.value]
          /\ Loaded = Append(found.eff.loaded, load_globally(found.value, "load"))
          /\ FinalLoads = {Len(Loaded)}

\* C4: load raises the ValueError that names the library (and the package
\* when given) exactly when find returns an empty result, and then load
\* itself loads nothing; when find returns a path, load loads that path
\* exactly once, as its last step, and returns its handle.
C4_LoadOrRaise ==
    LoadDone => LoadFollows(find(world, call.ord, call.lib_name, call.pkg_name))

\* find answered `found`, which is empty, and load raised without loading
RaisedFor(found) == FoundNothing(found) /\ NotFoundError /\ Loaded = <<>>

\* load of a library of a named package that find does not find has raised
C4_Witness ==
    /\ LoadDone
    /\ call.pkg_name # None
    /\ RaisedFor(find(world, call.ord, call.lib_name, call.pkg_name))

(***************************************************************************)
(* C5                                                                      *)
(***************************************************************************)
ConfigDone == pc = "done" /\ call.op = "_get_paths_from_config"

\* the candidate config files that exist
ConfigFiles == {i \in 1..2 : Exists(world, ConfigLocations(world)[i])}

\* the keys of the Paths section of the one config file, when there is one
PathsKeys ==
    IF Cardinality(ConfigFiles) = 1 /\ world.config.section THEN world.config.keys ELSE {}

\* a key with $HOME replaced by ~ and ~ expanded
Expanded(key) == Canon(ExpandUser(world, Replace(key, <<"$","H","O","M","E">>, <<"~">>)))

ConfigIsWrong ==
    \/ Cardinality(ConfigFiles) = 2
    \/ \E key \in PathsKeys : ~IsAbsolute(Expanded(key))
    \/ \E key \in PathsKeys : ~IsDir(world, Expanded(key))

PreloadRan ==
    /\ LoadDone
    /\ PkgName \in DOMAIN world.modules
    /\ world.platform # "darwin"

\* the modules whose declarations the preload meets
Expandable == {m \in {PkgName} \cup Dependencies(PkgName) : world.modules[m].hasdeps}

Warned(name, by) == \E i \in 1..Len(outcome.eff.warned) : outcome.eff.warned[i] = <<name, by>>

\* the library in the lib or lib64 directory of its package
PackageLibraries ==
    { f \in { ModuleDir(PkgName) \o <<"/">> \o l \o <<"/">> \o FileName : l \in {lib, lib64} } :
        Exists(world, f) }

\* C6 as stated: whatever the declarations, the preload raises nothing,
\* warns of every declared name that cannot be imported, loads the shared
\* objects of every declared name that can, and the library of the package
\* is then resolved and loaded.
C6_AsStated ==
    PreloadRan =>
        /\ outcome.kind = "raise" => NotFoundError
        /\ \A m \in Expandable : \A i \in 1..Len(world.modules[m].deps) :
              LET name == world.modules[m].deps[i]
              IN  IF name \in DOMAIN world.modules
                  THEN \A o \in SharedObjects(name) : LoadsOf(o) # {}
                  ELSE Warned(name, m)
        /\ PackageLibraries # {} =>
              /\ outcome.kind = "return"
              /\ outcome.value.handle \in PackageLibraries
              /\ Loaded[Len(Loaded)] = load_globally(outcome.value.handle, "load")

(***************************************************************************)
(* C7                                                                      *)
(***************************************************************************)
\* the candidate variables of package name P
HomePrefixes(P) ==
    {Upper(P), Lower(P)}
        \cup (IF EndsWith(P, lib) THEN {Take(Upper(P), Len(P) - 3), Take(Lower(P), Len(P) - 3)}
              ELSE {})

HomeCandidates(P) ==
    {prefix \o suffix : prefix \in HomePrefixes(P),
                        suffix \in {<<"_","H","O","M","E">>, <<"_","D","I","R">>}}

\* the library under lib, else lib64, of the value of variable v, else None
UnderVariable(v) ==
    LET root == ExpandUser(world, world.environ[v])
    IN  IF Exists(world, Join3(root, lib, FileName)) THEN Join3(root, lib, FileName)
        ELSE IF Exists(world, Join3(root, lib64, FileName)) THEN Join3(root, lib64, FileName)
        ELSE None

\* the candidate variables that are set and have the library under them
HomeHits == {v \in HomeCandidates(PkgName) \cap DOMAIN world.environ : UnderVariable(v) # None}

\* C7 as stated: the candidate variables of the HOME source are P.upper()
\* and P.lower(), and the same with a trailing "lib" stripped, each with
\* _HOME and _DIR; when one of them is set, the library is under its lib or
\* lib64, and no earlier enabled source matches, find returns that path,
\* lib before lib64.
C7_AsStated ==
    FindDone =>
        /\ {HomeEnvs(PkgName)[i] : i \in 1..Len(HomeEnvs(PkgName))} = HomeCandidates(PkgName)
        /\ (HomeHits # {} /\ ~SwitchedOff(world, 3) /\ ~Matches(1) /\ ~Matches(2))
              => /\ outcome.kind = "return"
                 /\ outcome.value \in {UnderVariable(v) : v \in HomeHits}

(***************************************************************************)
(* C8                                                                      *)
(***************************************************************************)
\* the segments of the value of variable v, none when v is not set
SegmentsOf(v) == IF v \in DOMAIN world.environ THEN Split(world.environ[v], ":") ELSE <<>>

\* the segments of LD_LIBRARY_PATH, then those of DYLD_LIBRARY_PATH
LdSegments == SegmentsOf(LD_LIBRARY_PATH) \o SegmentsOf(DYLD_LIBRARY_PATH)

\* the segments that hold the file
LdHits == {i \in 1..Len(LdSegments) : Exists(world, Join(LdSegments[i], FileName))}

\* C8 as stated: the LD_PATH source probes the segments of LD_LIBRARY_PATH,
\* then those of DYLD_LIBRARY_PATH, left to right, the file name joined onto
\* the segment; it returns the first such path that exists, and None when no
\* segment of either variable holds the file or neither variable is set.
C8_AsStated ==
    (FindDone /\ ~Skipped(5)) =>
        /\ Answer(5).kind = "return"
        /\ Answer(5).value =
              IF LdHits = {} THEN None
              ELSE Join(LdSegments[CHOOSE i \in LdHits : \A j \in LdHits : i <= j], FileName)

(***************************************************************************)
(* C9                                                                      *)
(***************************************************************************)
\* find returned None, or a path that the PACKAGE source did not produce
ReturnedElsewhere ==
    /\ FindDone
    /\ outcome.kind = "return"
    /\ (outcome.value = None \/ ~Matches(1))

\* C9 as stated: the preload runs only when the PACKAGE source yields the
\* path and the platform is not darwin; when find returns None or the path
\* of another source, the call has loaded no shared object.
C9_AsStated ==
    /\ ReturnedElsewhere => Loaded = <<>>
    /\ (FindDone /\ world.platform = "darwin") => Loaded = <<>>

(***************************************************************************)
(* C10                                                                     *)
(***************************************************************************)
\* the positions at which the preload was called on module m
ExpansionsOf(m) ==
    {i \in 1..Len(outcome.eff.expanded) : outcome.eff.expanded[i] = m}

\* C10 as stated: within one find or load, every module of the dependency
\* graph is expanded by the preload at most once and each of its shared
\* objects is loaded by the preload at most once, diamonds and cycles
\* included.
C10_AsStated ==
    (FindDone \/ LoadDone) =>
        /\ \A m \in DOMAIN world.modules : Cardinality(ExpansionsOf(m)) <= 1
        /\ \A m \in DOMAIN world.modules : \A o \in SharedObjects(m) :
              Cardinality({i \in LoadsOf(o) : Loaded[i].by = "preload"}) <= 1

(***************************************************************************)
(* C11                                                                     *)
(***************************************************************************)
\* the errors find and load are documented to raise: the configuration
\* errors and load's not-found error, all ValueError
DocumentedError == outcome.kind = "raise" /\ outcome.exc = "ValueError"

\* C11 as stated: whatever the declarations over the modules, cyclic ones
\* included, the preload ends and find or load returns or raises one of its
\* documented errors.
C11_AsStated ==
    (FindDone \/ LoadDone) => (outcome.kind = "return" \/ DocumentedError)

(***************************************************************************)
(* C12                                                                     *)
(***************************************************************************)
\* a step in which find is called once more, with the same arguments and in
\* the same filesystem and environment as the call before it
SecondFind ==
    /\ pc = "done" /\ pc' = "again"
    /\ call.op = "find" /\ call'.op = "find"
    /\ call'.lib_name = call.lib_name /\ call'.pkg_name = call.pkg_name
    /\ world' = world

\* a step in which find is called in an environment that may have changed
\* since the call before it
FindAfterChange == pc = "idle" /\ pc' = "done" /\ call'.op = "find"

\* the result r is what find gives in environment w for the arguments of c
ResultIn(r, w, c) ==
    \E ord \in Orders(w) : SameAs(r, find(w, ord, c.lib_name, c.pkg_name))

\* C12 as stated: find called twice with the same arguments in the same
\* filesystem and environment gives the same result both times, also when
\* several roots of the config file hold the library; and find called after
\* the filesystem or the environment changed gives the result of the new
\* state, not an earlier one.
C12_AsStated ==
    [][ /\ SecondFind => SameAs(outcome', outcome)
        /\ FindAfterChange => ResultIn(outcome', world', call') ]_vars
====
